---- MODULE Spec2Model ----
(***************************************************************************)
(* The two front ends of src/frontend/src/App.jsx as state machines.       *)
(*                                                                         *)
(*   Spec         the generic writing assistant (App.jsx lines 31-316):    *)
(*                handleSubmit, generateRegular, generateStreaming.        *)
(*   SpecStream   one call of generateStreaming (lines 101-178), from its  *)
(*                fetch to its end, on bodies of more frames.              *)
(*   SpecListing  the listing generator (App.jsx lines 351-789):           *)
(*                handleGenerate, handleRegenerateDescription,             *)
(*                handleRegenerateSocial.                                  *)
(*   SpecImages   the listing generator's image upload (lines 363-398):    *)
(*                onDrop, removeImage.                                     *)
(*   SpecCore     handleSubmit called as a function, without the submit    *)
(*                button's guard, and the streaming requests it starts.    *)
(*   SpecLoading  either page, with fairness: every response arrives or    *)
(*                fails, every stream ends or fails.                       *)
(*                                                                         *)
(* Text is a sequence of Unicode code points, the response body a sequence *)
(* of bytes (0..255).  A step is one run of JavaScript between two awaits: *)
(* an event handler up to its first await, or the continuation of one      *)
(* await up to the next.                                                   *)
(***************************************************************************)
EXTENDS Integers, Sequences, FiniteSets, TLC

(***************************************************************************)
(* Bounds of the model.                                                    *)
(***************************************************************************)
\* Frames and unfinished lines in one response body of POST
\* /generate/stream, when one streaming request is followed from its fetch
\* to its end (SpecStream).
MaxFrames == 2
\* Frames and unfinished lines in one response body of POST
\* /generate/stream, when the whole page is followed over several
\* submissions (Spec, SpecCore, SpecLoading).
MaxPageFrames == 1
\* Submissions over the life of the page.
MaxRequests == 2
\* Files the dropzone accepts from one drop.
MaxDrop == 6

(***************************************************************************)
(* String literals of the source, as code points.                          *)
(***************************************************************************)
\* "data: "
DataPrefix == <<100, 97, 116, 97, 58, 32>>
\* "[DONE]"
DoneMark == <<91, 68, 79, 78, 69, 93>>
\* "[ERROR]"
ErrorMark == <<91, 69, 82, 82, 79, 82, 93>>
\* "Error: "
ErrorLabel == <<69, 114, 114, 111, 114, 58, 32>>
\* "HTTP error! status: "
HttpErrorText == <<72, 84, 84, 80, 32, 101, 114, 114, 111, 114, 33, 32, 115, 116, 97, 116, 117, 115, 58, 32>>
\* "Failed to regenerate"
RegenerateFailedText == <<70, 97, 105, 108, 101, 100, 32, 116, 111, 32, 114, 101, 103, 101, 110, 101, 114, 97, 116, 101>>
\* "\n", the separator of chunk.split('\n')
LF == 10
\* U+FFFD, what TextDecoder puts in place of a malformed byte sequence
REPLACEMENT == 65533

(***************************************************************************)
(* String operations of JavaScript.                                        *)
(***************************************************************************)
\* s.startsWith(p)
StartsWith(s, p) == Len(s) >= Len(p) /\ SubSeq(s, 1, Len(p)) = p

\* s.slice(n)
Slice(s, n) == SubSeq(s, n + 1, Len(s))

\* s.includes(p)
Includes(s, p) == \E i \in 0..(Len(s) - Len(p)) : SubSeq(s, i + 1, i + Len(p)) = p

\* The white space String.prototype.trim removes (the code points below 256).
WhiteSpace == {9, 10, 11, 12, 13, 32, 160}

RECURSIVE TrimStart(_)
TrimStart(s) == IF s # <<>> /\ Head(s) \in WhiteSpace THEN TrimStart(Tail(s)) ELSE s

RECURSIVE TrimEnd(_)
TrimEnd(s) ==
    IF s # <<>> /\ s[Len(s)] \in WhiteSpace THEN TrimEnd(SubSeq(s, 1, Len(s) - 1)) ELSE s

\* s.trim()
Trim(s) == TrimEnd(TrimStart(s))

RECURSIVE SplitRun(_, _, _, _)
SplitRun(s, i, cur, out) ==
    IF i > Len(s) THEN Append(out, cur)
    ELSE IF s[i] = LF THEN SplitRun(s, i + 1, <<>>, Append(out, cur))
    ELSE SplitRun(s, i + 1, Append(cur, s[i]), out)

\* s.split('\n'): k separators give k + 1 pieces, the empty ones included.
Split(s) == SplitRun(s, 1, <<>>, <<>>)

RECURSIVE NumberToString(_)
\* `${n}` of a non-negative integer: its decimal digits.
NumberToString(n) ==
    IF n < 10 THEN <<48 + n>> ELSE Append(NumberToString(n \div 10), 48 + (n % 10))

RECURSIVE Concat(_)
\* The pieces of a sequence of strings, joined.
Concat(ss) == IF ss = <<>> THEN <<>> ELSE Head(ss) \o Concat(Tail(ss))

(***************************************************************************)
(* TextDecoder: the UTF-8 decoder of the Encoding standard.                *)
(***************************************************************************)
\* The decoder with no byte sequence pending.
UTF8Reset == [needed |-> 0, seen |-> 0, cp |-> 0, lower |-> 128, upper |-> 191]

RECURSIVE UTF8Run(_, _, _, _)
UTF8Run(st, bytes, i, out) ==
    IF i > Len(bytes) THEN [st |-> st, out |-> out]
    ELSE LET b == bytes[i] IN
         IF st.needed = 0
         THEN IF b <= 127 THEN UTF8Run(st, bytes, i + 1, Append(out, b))
              ELSE IF b >= 194 /\ b <= 223
              THEN UTF8Run([UTF8Reset EXCEPT !.needed = 1, !.cp = b % 32], bytes, i + 1, out)
              ELSE IF b >= 224 /\ b <= 239
              THEN UTF8Run([needed |-> 2, seen |-> 0, cp |-> b % 16,
                            lower |-> IF b = 224 THEN 160 ELSE 128,
                            upper |-> IF b = 237 THEN 159 ELSE 191], bytes, i + 1, out)
              ELSE IF b >= 240 /\ b <= 244
              THEN UTF8Run([needed |-> 3, seen |-> 0, cp |-> b % 8,
                            lower |-> IF b = 240 THEN 144 ELSE 128,
                            upper |-> IF b = 244 THEN 143 ELSE 191], bytes, i + 1, out)
              ELSE UTF8Run(st, bytes, i + 1, Append(out, REPLACEMENT))
         ELSE IF b < st.lower \/ b > st.upper
         \* Not a continuation byte: the pending sequence is malformed and the
         \* byte is looked at again with nothing pending.
         THEN UTF8Run(UTF8Reset, bytes, i, Append(out, REPLACEMENT))
         ELSE LET cp == st.cp * 64 + (b % 64) IN
              IF st.seen + 1 = st.needed
              THEN UTF8Run(UTF8Reset, bytes, i + 1, Append(out, cp))
              ELSE UTF8Run([st EXCEPT !.seen = @ + 1, !.cp = cp, !.lower = 128, !.upper = 191],
                           bytes, i + 1, out)

\* decoder.decode(bytes, {stream}) on a decoder in state st: the text and the
\* decoder afterwards.  Without stream: true the end of the input ends the
\* text: a pending sequence becomes U+FFFD and the decoder starts afresh.
TextDecoderDecode(st, bytes, stream) ==
    LET r == UTF8Run(st, bytes, 1, <<>>) IN
    IF stream \/ r.st.needed = 0 THEN r
    ELSE [st |-> UTF8Reset, out |-> Append(r.out, REPLACEMENT)]

(***************************************************************************)
(* What the back end may answer.  The back end is not part of this         *)
(* repository's front end: its answers are inputs.                         *)
(***************************************************************************)
\* response.status
StatusCodes == {200, 404, 500}

\* response.ok
Ok(status) == status >= 200 /\ status <= 299

\* The payloads of the frames of a stream, as bytes: a text delta with a
\* two-byte character, "aé" (0x61 0xC3 0xA9), "[DONE]" and "[ERROR] x".
FramePayloads ==
    { <<97, 195, 169>>, DoneMark, ErrorMark \o <<32, 120>> }

\* One frame on the wire: "data: <payload>\n\n".
Frame(payload) == DataPrefix \o payload \o <<LF, LF>>

\* A line the back end has not finished, "data: b" with no line break: what
\* a body ends with when the connection closes early, and what a read
\* returns when the line break comes with the next bytes.
PartialLine == DataPrefix \o <<98>>

\* What a body is made of: whole frames and unfinished lines.
Pieces == { Frame(p) : p \in FramePayloads } \cup { PartialLine }

RECURSIVE StreamsOf(_)
\* The bodies of n pieces.
StreamsOf(n) ==
    IF n = 0 THEN { <<>> }
    ELSE { s \o piece : s \in StreamsOf(n - 1), piece \in Pieces }

\* The bodies of at most n pieces POST /generate/stream may answer with.
StreamsUpTo(n) == UNION { StreamsOf(k) : k \in 0..n }

\* The texts a JSON body may carry.
Texts == { <<97, 98>>, <<99>> }

\* The body of POST /generate as response.json() sees it: JSON with a content
\* field, or not JSON at all.
JsonBodies == [valid : {TRUE}, content : Texts] \cup { [valid |-> FALSE, content |-> <<>>] }

\* err.message of a fetch or a read the network fails ("Failed to fetch").
NetworkErrorText == <<70, 97, 105, 108, 101, 100, 32, 116, 111, 32, 102, 101, 116, 99, 104>>

\* err.message of response.json() on a body that is not JSON ("Unexpected token").
JsonErrorText == <<85, 110, 101, 120, 112, 101, 99, 116, 101, 100, 32, 116, 111, 107, 101, 110>>

\* What the user may type into the prompt: "", " \n", " a".
Prompts == { <<>>, <<32, LF>>, <<32, 97>> }

(***************************************************************************)
(* State.                                                                  *)
(***************************************************************************)
VARIABLES
    \* The generic writing assistant (App.jsx lines 37-55).
    prompt,        \* useState(''): the textarea
    useStreaming,  \* useState(true): the checkbox
    content,       \* useState(''): the generated text shown
    isLoading,     \* useState(false)
    error,         \* useState(''): the message shown
    reqs,          \* the calls of handleSubmit not yet superseded: id -> its locals
    nextId,        \* the number of the next call of handleSubmit
    \* The listing generator (App.jsx lines 366-371).
    description,                \* useState('')
    socialCaption,              \* useState('')
    listingIsLoading,           \* useState(false): the listing App's isLoading
    isRegeneratingDescription,  \* useState(false)
    isRegeneratingSocial,       \* useState(false)
    listingError,               \* useState(''): the listing App's error
    calls,         \* the latest call of each of the three handlers: its locals
    images,        \* useState([]), line 363: the files uploaded, in order
    renderedImages \* the value of images in the latest render: what the
                   \* closures of that render (onDrop, the dropzone's disabled
                   \* option, the remove buttons, buildFormData) see

genericVars == <<prompt, useStreaming, content, isLoading, error, reqs, nextId>>

imageVars == <<images, renderedImages>>

listingVars == <<description, socialCaption, listingIsLoading, isRegeneratingDescription,
                 isRegeneratingSocial, listingError, calls, imageVars>>

vars == <<genericVars, listingVars>>

\* The locals of a call of handleSubmit that has just issued its fetch.
\*   mode     the generate function it runs, by useStreaming at the call
\*   prompt   the prompt of the request body
\*   pc       the await it is suspended at ("fetch", "json", "read") or how it
\*            ended ("Completed", "Failed")
\*   status   response.status, 0 before the response
\*   sent     the whole body of the response, wire the part not yet read
\*   json     the body as response.json() parses it
\*   decoder  the TextDecoder of line 136
\*   decoded  the chunks of line 150 so far, joined
\*   yielded  the values data of line 161 so far
\*   reader   the reader of line 133 and the stream it has locked: "none"
\*            before getReader(), "open" while the body can still give bytes
\*            to it, "closed" once a read has reported the end, "errored"
\*            once a read has rejected.  Nothing in App.jsx calls
\*            reader.cancel() or reader.releaseLock().
NewRequest(mode, p) ==
    [mode |-> mode, prompt |-> p, pc |-> "fetch", status |-> 0,
     sent |-> <<>>, wire |-> <<>>, json |-> [valid |-> FALSE, content |-> <<>>],
     decoder |-> UTF8Reset, decoded |-> <<>>, yielded |-> <<>>,
     reader |-> "none"]

Terminal == {"Completed", "Failed"}

\* The calls still suspended at an await.
InFlight == { id \in DOMAIN reqs : reqs[id].pc \notin Terminal }

(***************************************************************************)
(* generateStreaming's loop body (App.jsx lines 156-172).                  *)
(***************************************************************************)
\* Lines 164-165: what the loop does with one payload.
Classify(data) ==
    IF data = DoneMark THEN "continue"
    ELSE IF StartsWith(data, ErrorMark) THEN "throw"
    ELSE "append"

RECURSIVE ProcessLines_Replaces(_, _, _)
\* ProcessLines with line 171 as setContent(data): the delta replaces the
\* text instead of being appended to it.
ProcessLines_Replaces(lines, i, acc) ==
    IF i > Len(lines) THEN acc
    ELSE LET line == lines[i] IN
         IF ~StartsWith(line, DataPrefix) THEN ProcessLines_Replaces(lines, i + 1, acc)
         ELSE LET data == Slice(line, 6)
                  seen == [acc EXCEPT !.yielded = Append(@, data)]
              IN CASE Classify(data) = "continue" -> ProcessLines_Replaces(lines, i + 1, seen)
                   [] Classify(data) = "throw" ->
                          [seen EXCEPT !.thrown = TRUE, !.message = data]
                   [] OTHER ->
                          ProcessLines_Replaces(lines, i + 1, [seen EXCEPT !.content = data])

RECURSIVE ProcessLines(_, _, _)
\* for (const line of lines) { ... } from line i on.  acc is the content state,
\* the payloads extracted so far and, once a line has thrown, its message.
ProcessLines(lines, i, acc) ==
    IF i > Len(lines) THEN acc
    ELSE LET line == lines[i] IN
         IF ~StartsWith(line, DataPrefix) THEN ProcessLines(lines, i + 1, acc)
         ELSE LET data == Slice(line, 6)
                  seen == [acc EXCEPT !.yielded = Append(@, data)]
              IN CASE Classify(data) = "continue" -> ProcessLines(lines, i + 1, seen)
                   [] Classify(data) = "throw" ->
                          [seen EXCEPT !.thrown = TRUE, !.message = data]
                   [] OTHER ->
                          ProcessLines(lines, i + 1, [seen EXCEPT !.content = @ \o data])

(***************************************************************************)
(* The generic writing assistant.                                          *)
(***************************************************************************)
\* HttpErrorMessage with the status left out of the message.
HttpErrorMessage_NoStatus(status) == HttpErrorText

\* Line 86, line 129: the message of the error a non-success status throws.
HttpErrorMessage(status) == HttpErrorText \o NumberToString(status)

\* CatchError with a catch block that also clears the text shown.
CatchError_ClearsContent(id, rec, msg, cont) ==
    /\ error' = ErrorLabel \o msg
    /\ content' = <<>>
    /\ isLoading' = FALSE
    /\ reqs' = [reqs EXCEPT ![id] = [rec EXCEPT !.pc = "Failed"]]

\* CatchError without handleSubmit's line 200: a failed call leaves isLoading
\* set.
CatchError_KeepsLoading(id, rec, msg, cont) ==
    /\ error' = ErrorLabel \o msg
    /\ content' = cont
    /\ isLoading' = isLoading
    /\ reqs' = [reqs EXCEPT ![id] = [rec EXCEPT !.pc = "Failed"]]

\* The catch blocks of lines 92-94 and 175-177, then handleSubmit's line 200,
\* for the call id whose locals are rec, the content state being cont.
CatchError(id, rec, msg, cont) ==
    /\ error' = ErrorLabel \o msg
    /\ content' = cont
    /\ isLoading' = FALSE
    /\ reqs' = [reqs EXCEPT ![id] = [rec EXCEPT !.pc = "Failed"]]

\* The generate function returns normally, then handleSubmit's line 200.
Complete(id, rec, cont) ==
    /\ content' = cont
    /\ isLoading' = FALSE
    /\ error' = error
    /\ reqs' = [reqs EXCEPT ![id] = [rec EXCEPT !.pc = "Completed"]]

\* Line 224: the user edits the prompt.
SetPrompt ==
    /\ \E p \in Prompts : p # prompt /\ prompt' = p
    /\ UNCHANGED <<useStreaming, content, isLoading, error, reqs, nextId>>
    /\ UNCHANGED listingVars

\* Line 272: the user toggles the checkbox.
SetUseStreaming ==
    /\ useStreaming' = ~useStreaming
    /\ UNCHANGED <<prompt, content, isLoading, error, reqs, nextId>>
    /\ UNCHANGED listingVars

\* SubmitDisabled testing the prompt without trimming it.
SubmitDisabled_NoTrim == isLoading \/ prompt = <<>>

\* Line 281: the submit button's disabled attribute.  The form has no other
\* way to submit: its controls are a textarea, two selects and a checkbox.
SubmitDisabled == isLoading \/ Trim(prompt) = <<>>

\* HandleSubmit without the reset of lines 189-190.
HandleSubmit_NoReset ==
    /\ ~SubmitDisabled
    /\ nextId <= MaxRequests
    /\ isLoading' = TRUE
    /\ reqs' = [id \in InFlight \cup {nextId} |->
                  IF id = nextId
                  THEN NewRequest(IF useStreaming THEN "stream" ELSE "regular", prompt)
                  ELSE reqs[id]]
    /\ nextId' = nextId + 1
    /\ UNCHANGED <<prompt, useStreaming, content, error>>
    /\ UNCHANGED listingVars

\* handleSubmit itself, lines 184-198 up to the await of fetch (line 73 or
\* line 116).  The function has no condition and no early return: whoever
\* calls it starts a request, whatever the calls still in flight.
HandleSubmitCall ==
    /\ nextId <= MaxRequests
    /\ error' = <<>>
    /\ content' = <<>>
    /\ isLoading' = TRUE
    /\ reqs' = [id \in InFlight \cup {nextId} |->
                  IF id = nextId
                  THEN NewRequest(IF useStreaming THEN "stream" ELSE "regular", prompt)
                  ELSE reqs[id]]
    /\ nextId' = nextId + 1
    /\ UNCHANGED <<prompt, useStreaming>>
    /\ UNCHANGED listingVars

\* The form's submit event: the browser fires it only from the enabled submit
\* button (lines 279-283), and its listener is handleSubmit (line 216).
HandleSubmit ==
    /\ ~SubmitDisabled
    /\ HandleSubmitCall

\* fetch rejects: the network failed before any response.
FetchReject(id) ==
    /\ reqs[id].pc = "fetch"
    /\ CatchError(id, reqs[id], NetworkErrorText, content)
    /\ UNCHANGED <<prompt, useStreaming, nextId>>
    /\ UNCHANGED listingVars

\* generateRegular, lines 85-89: the response of POST /generate arrives.
FetchResolveRegular(id) ==
    /\ reqs[id].pc = "fetch"
    /\ reqs[id].mode = "regular"
    /\ \E status \in StatusCodes, body \in JsonBodies :
          LET rec == [reqs[id] EXCEPT !.status = status, !.json = body] IN
          IF ~Ok(status)
          THEN /\ body = [valid |-> FALSE, content |-> <<>>]
               /\ CatchError(id, rec, HttpErrorMessage(status), content)
          ELSE /\ reqs' = [reqs EXCEPT ![id] = [rec EXCEPT !.pc = "json"]]
               /\ UNCHANGED <<content, isLoading, error>>
    /\ UNCHANGED <<prompt, useStreaming, nextId>>
    /\ UNCHANGED listingVars

\* generateRegular, lines 89-90: response.json() settles.
JsonSettle(id) ==
    /\ reqs[id].pc = "json"
    /\ IF reqs[id].json.valid
       THEN Complete(id, reqs[id], reqs[id].json.content)
       ELSE CatchError(id, reqs[id], JsonErrorText, content)
    /\ UNCHANGED <<prompt, useStreaming, nextId>>
    /\ UNCHANGED listingVars

\* generateStreaming, lines 128-139: the response of POST /generate/stream
\* arrives, its body one of bodies.
FetchResolveStreaming(id, bodies) ==
    /\ reqs[id].pc = "fetch"
    /\ reqs[id].mode = "stream"
    /\ \E status \in StatusCodes, body \in bodies :
          LET rec == [reqs[id] EXCEPT !.status = status, !.sent = body, !.wire = body] IN
          IF ~Ok(status)
          THEN /\ body = <<>>
               /\ CatchError(id, rec, HttpErrorMessage(status), content)
          ELSE /\ content' = <<>>
               /\ reqs' = [reqs EXCEPT ![id] = [rec EXCEPT !.pc = "read", !.reader = "open"]]
               /\ UNCHANGED <<isLoading, error>>
    /\ UNCHANGED <<prompt, useStreaming, nextId>>
    /\ UNCHANGED listingVars

\* generateStreaming, lines 144-172: reader.read() gives the next n bytes, and
\* the loop body runs on them.
ReadChunk(id) ==
    /\ reqs[id].pc = "read"
    /\ \E n \in 1..Len(reqs[id].wire) :
          LET r == reqs[id]
              value == SubSeq(r.wire, 1, n)
              dec == TextDecoderDecode(r.decoder, value, FALSE)
              chunk == dec.out
              lines == Split(chunk)
              res == ProcessLines(lines, 1,
                        [content |-> content, yielded |-> r.yielded,
                         thrown |-> FALSE, message |-> <<>>])
              rec == [r EXCEPT !.wire = Slice(r.wire, n), !.decoder = dec.st,
                               !.decoded = @ \o chunk, !.yielded = res.yielded]
          IN IF res.thrown
             THEN CatchError(id, rec, res.message, res.content)
             ELSE /\ content' = res.content
                  /\ reqs' = [reqs EXCEPT ![id] = rec]
                  /\ UNCHANGED <<isLoading, error>>
    /\ UNCHANGED <<prompt, useStreaming, nextId>>
    /\ UNCHANGED listingVars

\* generateStreaming, lines 144-147: reader.read() reports the end of the body.
ReadDone(id) ==
    /\ reqs[id].pc = "read"
    /\ reqs[id].wire = <<>>
    /\ Complete(id, [reqs[id] EXCEPT !.reader = "closed"], content)
    /\ UNCHANGED <<prompt, useStreaming, nextId>>
    /\ UNCHANGED listingVars

\* generateStreaming, line 144: reader.read() rejects, the connection failed.
ReadFail(id) ==
    /\ reqs[id].pc = "read"
    /\ CatchError(id, [reqs[id] EXCEPT !.reader = "errored"], NetworkErrorText, content)
    /\ UNCHANGED <<prompt, useStreaming, nextId>>
    /\ UNCHANGED listingVars

(***************************************************************************)
(* The listing generator.                                                  *)
(***************************************************************************)
\* The three handlers that call the back end: handleGenerate,
\* handleRegenerateDescription, handleRegenerateSocial.
Handlers == {"generate", "description", "social"}
Sections == {"description", "social"}

\* A body as response.json() sees it: not JSON (valid is FALSE), or JSON with
\* the fields the handlers read, a field that is missing or empty being <<>>.
\*   detail                        the error body of the back end
\*   description, social_caption   the body of POST /generate-listing
\*   content                       the body of POST /regenerate-section
NoBody ==
    [valid |-> FALSE, detail |-> <<>>, description |-> <<>>, social_caption |-> <<>>,
     content |-> <<>>]

\* "Nope": a detail the back end may give.
Details == { <<>>, <<78, 111, 112, 101>> }
ErrorBodies == { NoBody } \cup { [NoBody EXCEPT !.valid = TRUE, !.detail = d] : d \in Details }
ListingBodies ==
    { NoBody } \cup
    { [NoBody EXCEPT !.valid = TRUE, !.description = d, !.social_caption = c] :
        d \in Texts, c \in Texts }
SectionBodies == { NoBody } \cup { [NoBody EXCEPT !.valid = TRUE, !.content = t] : t \in Texts }

\* The locals of a handler that has not been called.
\*   pc      "idle", the await it is suspended at ("fetch", "json") or how its
\*           latest call ended ("Completed", "Failed")
\*   status  response.status, 0 before the response
\*   body    the body of the response
IdleCall == [pc |-> "idle", status |-> 0, body |-> NoBody]

\* Line 507.
hasOutput == description # <<>> \/ socialCaption # <<>>

\* ListingErrorMessage that never shows the back end's detail.
ListingErrorMessage_IgnoresDetail(status, errorData) ==
    HttpErrorText \o NumberToString(status)

\* Lines 440-441: the message handleGenerate throws on a non-success status;
\* errorData is the parsed body, or {} when the body is not JSON.
ListingErrorMessage(status, errorData) ==
    IF errorData.valid /\ errorData.detail # <<>> THEN errorData.detail
    ELSE HttpErrorText \o NumberToString(status)

\* Lines 425-437: the Generate button (line 693: disabled while isLoading), up
\* to the await of fetch.
HandleGenerate ==
    /\ ~listingIsLoading
    /\ listingError' = <<>>
    /\ listingIsLoading' = TRUE
    /\ description' = <<>>
    /\ socialCaption' = <<>>
    /\ calls' = [calls EXCEPT !["generate"] = [IdleCall EXCEPT !.pc = "fetch"]]
    /\ UNCHANGED <<isRegeneratingDescription, isRegeneratingSocial>>
    /\ UNCHANGED imageVars
    /\ UNCHANGED genericVars

\* handleGenerate, lines 434-440: the response of POST /generate-listing
\* arrives; either branch then awaits response.json().
GenerateFetchResolve ==
    /\ calls["generate"].pc = "fetch"
    /\ \E status \in StatusCodes :
          \E body \in (IF Ok(status) THEN ListingBodies ELSE ErrorBodies) :
              calls' = [calls EXCEPT !["generate"] =
                          [pc |-> "json", status |-> status, body |-> body]]
    /\ UNCHANGED <<description, socialCaption, listingIsLoading, isRegeneratingDescription,
                   isRegeneratingSocial, listingError>>
    /\ UNCHANGED imageVars
    /\ UNCHANGED genericVars

\* handleGenerate, lines 447-451: fetch rejects.
GenerateFetchReject ==
    /\ calls["generate"].pc = "fetch"
    /\ listingError' = NetworkErrorText
    /\ listingIsLoading' = FALSE
    /\ calls' = [calls EXCEPT !["generate"].pc = "Failed"]
    /\ UNCHANGED <<description, socialCaption, isRegeneratingDescription, isRegeneratingSocial>>
    /\ UNCHANGED imageVars
    /\ UNCHANGED genericVars

\* handleGenerate, lines 440-451: response.json() settles.
GenerateJsonSettle ==
    /\ calls["generate"].pc = "json"
    /\ LET c == calls["generate"] IN
       IF ~Ok(c.status)
       THEN /\ listingError' = ListingErrorMessage(c.status, c.body)
            /\ calls' = [calls EXCEPT !["generate"].pc = "Failed"]
            /\ UNCHANGED <<description, socialCaption>>
       ELSE IF ~c.body.valid
       THEN /\ listingError' = JsonErrorText
            /\ calls' = [calls EXCEPT !["generate"].pc = "Failed"]
            /\ UNCHANGED <<description, socialCaption>>
       ELSE /\ description' = c.body.description
            /\ socialCaption' = c.body.social_caption
            /\ calls' = [calls EXCEPT !["generate"].pc = "Completed"]
            /\ UNCHANGED listingError
    /\ listingIsLoading' = FALSE
    /\ UNCHANGED <<isRegeneratingDescription, isRegeneratingSocial>>
    /\ UNCHANGED imageVars
    /\ UNCHANGED genericVars

\* isRegeneratingDescription or isRegeneratingSocial, by section.
IsRegenerating(section) ==
    IF section = "description" THEN isRegeneratingDescription ELSE isRegeneratingSocial

\* setIsRegeneratingDescription(v) or setIsRegeneratingSocial(v), by section.
SetIsRegenerating(section, v) ==
    IF section = "description"
    THEN isRegeneratingDescription' = v /\ UNCHANGED isRegeneratingSocial
    ELSE isRegeneratingSocial' = v /\ UNCHANGED isRegeneratingDescription

\* Lines 454-462 and 473-481: a Regenerate button, up to the await of fetch.
\* The buttons are rendered when hasOutput && !isLoading (line 734) and each
\* is disabled while its own call is in flight (lines 749, 773).
RegenerateStart(section) ==
    /\ hasOutput /\ ~listingIsLoading
    /\ ~IsRegenerating(section)
    /\ SetIsRegenerating(section, TRUE)
    /\ calls' = [calls EXCEPT ![section] = [IdleCall EXCEPT !.pc = "fetch"]]
    /\ UNCHANGED <<description, socialCaption, listingIsLoading, listingError>>
    /\ UNCHANGED imageVars
    /\ UNCHANGED genericVars

\* Lines 463-470 and 482-489: the response of POST /regenerate-section
\* arrives.  A non-success status throws at once; the body is not read.
RegenerateFetchResolve(section) ==
    /\ calls[section].pc = "fetch"
    /\ \E status \in StatusCodes :
          IF ~Ok(status)
          THEN /\ listingError' = RegenerateFailedText
               /\ SetIsRegenerating(section, FALSE)
               /\ calls' = [calls EXCEPT ![section] =
                              [pc |-> "Failed", status |-> status, body |-> NoBody]]
          ELSE /\ \E body \in SectionBodies :
                     calls' = [calls EXCEPT ![section] =
                                 [pc |-> "json", status |-> status, body |-> body]]
               /\ UNCHANGED <<listingError, isRegeneratingDescription, isRegeneratingSocial>>
    /\ UNCHANGED <<description, socialCaption, listingIsLoading>>
    /\ UNCHANGED imageVars
    /\ UNCHANGED genericVars

\* Lines 466-470 and 485-489: fetch rejects.
RegenerateFetchReject(section) ==
    /\ calls[section].pc = "fetch"
    /\ listingError' = NetworkErrorText
    /\ SetIsRegenerating(section, FALSE)
    /\ calls' = [calls EXCEPT ![section].pc = "Failed"]
    /\ UNCHANGED <<description, socialCaption, listingIsLoading>>
    /\ UNCHANGED imageVars
    /\ UNCHANGED genericVars

\* Lines 464-470 and 483-489: response.json() settles.
RegenerateJsonSettle(section) ==
    /\ calls[section].pc = "json"
    /\ LET c == calls[section] IN
       IF ~c.body.valid
       THEN /\ listingError' = JsonErrorText
            /\ calls' = [calls EXCEPT ![section].pc = "Failed"]
            /\ UNCHANGED <<description, socialCaption>>
       ELSE /\ IF section = "description"
               THEN description' = c.body.content /\ UNCHANGED socialCaption
               ELSE socialCaption' = c.body.content /\ UNCHANGED description
            /\ calls' = [calls EXCEPT ![section].pc = "Completed"]
            /\ UNCHANGED listingError
    /\ SetIsRegenerating(section, FALSE)
    /\ UNCHANGED listingIsLoading
    /\ UNCHANGED imageVars
    /\ UNCHANGED genericVars

\* Lines 454-471.
HandleRegenerateDescription ==
    \/ RegenerateStart("description")
    \/ RegenerateFetchResolve("description")
    \/ RegenerateFetchReject("description")
    \/ RegenerateJsonSettle("description")

\* Lines 473-490.
HandleRegenerateSocial ==
    \/ RegenerateStart("social")
    \/ RegenerateFetchResolve("social")
    \/ RegenerateFetchReject("social")
    \/ RegenerateJsonSettle("social")

\* Line 702: the Try Again button, shown with the error.
TryAgain ==
    /\ listingError # <<>>
    /\ listingError' = <<>>
    /\ UNCHANGED <<description, socialCaption, listingIsLoading, isRegeneratingDescription,
                   isRegeneratingSocial, calls>>
    /\ UNCHANGED imageVars
    /\ UNCHANGED genericVars

(***************************************************************************)
(* The listing generator's image upload (App.jsx lines 363, 375-398).      *)
(***************************************************************************)
\* Lines 377, 381, 388: the most images a listing takes.
MaxImages == 5

\* The files a user can pick; an image is modelled by its file, its preview
\* URL being made from it (line 379).
Files == {1, 2}

RECURSIVE FileLists(_)
\* The lists of n files.
FileLists(n) ==
    IF n = 0 THEN { <<>> }
    ELSE { l \o <<f>> : l \in FileLists(n - 1), f \in Files }

\* Array.prototype.slice(0, end) for end >= 0.
SliceTo(s, end) == SubSeq(s, 1, IF end < Len(s) THEN end ELSE Len(s))

\* Array.prototype.splice(index, 1), index counted from 1 here.
Splice(s, index) == SubSeq(s, 1, index - 1) \o SubSeq(s, index + 1, Len(s))

\* OnDrop whose updater does not cut the list: line 381 as
\* setImages(prev => [...prev, ...newImages]).
OnDrop_NoUpdaterSlice ==
    /\ Len(renderedImages) < MaxImages
    /\ \E n \in 0..MaxDrop : \E acceptedFiles \in FileLists(n) :
          LET newImages == SliceTo(acceptedFiles, MaxImages - Len(renderedImages))
          IN images' = images \o newImages
    /\ UNCHANGED renderedImages
    /\ UNCHANGED <<description, socialCaption, listingIsLoading, isRegeneratingDescription,
                   isRegeneratingSocial, listingError, calls>>
    /\ UNCHANGED genericVars

\* Lines 376-382, called by the dropzone (line 388: disabled once the render
\* has 5 images).  images.length on line 377 is the one of the render the
\* callback was made in (line 382); prev on line 381 is the state itself.
OnDrop ==
    /\ Len(renderedImages) < MaxImages
    /\ \E n \in 0..MaxDrop : \E acceptedFiles \in FileLists(n) :
          LET newImages == SliceTo(acceptedFiles, MaxImages - Len(renderedImages))
          IN images' = SliceTo(images \o newImages, MaxImages)
    /\ UNCHANGED renderedImages
    /\ UNCHANGED <<description, socialCaption, listingIsLoading, isRegeneratingDescription,
                   isRegeneratingSocial, listingError, calls>>
    /\ UNCHANGED genericVars

\* Lines 391-398, called by the remove button of a rendered image (line 679).
\* An index past the end of prev makes line 394 throw inside the updater;
\* that call is left out.
RemoveImage ==
    /\ \E index \in 1..Len(renderedImages) :
          /\ index <= Len(images)
          /\ images' = Splice(images, index)
    /\ UNCHANGED renderedImages
    /\ UNCHANGED <<description, socialCaption, listingIsLoading, isRegeneratingDescription,
                   isRegeneratingSocial, listingError, calls>>
    /\ UNCHANGED genericVars

\* React renders the component again after setImages: the closures of the
\* new render see the new list.
Render ==
    /\ renderedImages # images
    /\ renderedImages' = images
    /\ UNCHANGED images
    /\ UNCHANGED <<description, socialCaption, listingIsLoading, isRegeneratingDescription,
                   isRegeneratingSocial, listingError, calls>>
    /\ UNCHANGED genericVars

(***************************************************************************)
(* The stream as the wire format defines it, for stating the claims: the   *)
(* frames of a body taken whole, and where each lies in it.                *)
(***************************************************************************)
\* The bytes of the body the call has read so far, and how many.
Pos(r) == Len(r.sent) - Len(r.wire)
Consumed(r) == SubSeq(r.sent, 1, Pos(r))

\* The text of a byte sequence decoded in one piece.
DecodeWhole(bytes) == TextDecoderDecode(UTF8Reset, bytes, FALSE).out

\* The lines of a body that a line break ends, as bytes.
WireLines(bytes) == LET ls == Split(bytes) IN SubSeq(ls, 1, Len(ls) - 1)

\* Line j of the body is a frame; its payload as text.
IsFrame(bytes, j) == StartsWith(WireLines(bytes)[j], DataPrefix)
PayloadOf(bytes, j) == DecodeWhole(Slice(WireLines(bytes)[j], 6))

\* The body is well formed: it ends with a line break and each of its lines
\* is a frame or a blank separator.
WellFormed(bytes) ==
    /\ bytes = <<>> \/ bytes[Len(bytes)] = LF
    /\ \A j \in 1..Len(WireLines(bytes)) :
          WireLines(bytes)[j] = <<>> \/ IsFrame(bytes, j)

RECURSIVE PayloadsFrom(_, _)
\* The payloads of the frames of the body from line j on, in order.
PayloadsFrom(bytes, j) ==
    IF j > Len(WireLines(bytes)) THEN <<>>
    ELSE IF IsFrame(bytes, j) THEN <<PayloadOf(bytes, j)>> \o PayloadsFrom(bytes, j + 1)
    ELSE PayloadsFrom(bytes, j + 1)

Payloads(bytes) == PayloadsFrom(bytes, 1)

\* The payloads that are text deltas: neither [DONE] nor [ERROR]...
IsDelta(data) == data # DoneMark /\ ~StartsWith(data, ErrorMark)
TextDeltas(ps) == SelectSeq(ps, IsDelta)

\* The line of the body that byte k belongs to (a line break belongs to the
\* line it ends), and the first and last byte of line j.
LineAt(bytes, k) == 1 + Cardinality({ i \in 1..(k - 1) : bytes[i] = LF })
LineEnd(bytes, j) == CHOOSE k \in 1..Len(bytes) : bytes[k] = LF /\ LineAt(bytes, k) = j
LineStart(bytes, j) == IF j = 1 THEN 1 ELSE LineEnd(bytes, j - 1) + 1

\* The frames of the body whose payload is [DONE], or begins with [ERROR].
DoneFrames(bytes) ==
    { j \in 1..Len(WireLines(bytes)) : IsFrame(bytes, j) /\ PayloadOf(bytes, j) = DoneMark }
ErrorFrames(bytes) ==
    { j \in 1..Len(WireLines(bytes)) :
        IsFrame(bytes, j) /\ StartsWith(PayloadOf(bytes, j), ErrorMark) }

Min(S) == CHOOSE m \in S : \A n \in S : m <= n

\* This step is a read of the call id that hands it bytes of the body.
ReadStep(id) ==
    /\ id \in DOMAIN reqs /\ id \in DOMAIN reqs'
    /\ reqs[id].pc = "read"
    /\ reqs'[id].sent = reqs[id].sent
    /\ Len(reqs'[id].wire) < Len(reqs[id].wire)

\* The lines of the body the bytes of this read belong to.
LinesRead(id) ==
    { LineAt(reqs[id].sent, k) : k \in (Pos(reqs[id]) + 1)..Pos(reqs'[id]) }


(***************************************************************************)
(* The claims.                                                             *)
(***************************************************************************)
\* The streaming calls that got a success status.
Streaming == { id \in DOMAIN reqs : reqs[id].mode = "stream" /\ Ok(reqs[id].status) }

\* C1: whatever way the body is cut into chunks, a streaming call that has
\* read a well-formed body with no [ERROR] frame to its end and Completed has
\* extracted exactly the payloads of the body's frames, in order, and has
\* their text deltas joined in content.
C1_FramesSurviveChunking ==
    \A id \in Streaming :
        LET r == reqs[id] IN
        (r.pc = "Completed" /\ WellFormed(r.sent) /\ ErrorFrames(r.sent) = {})
            => /\ r.yielded = Payloads(r.sent)
               /\ content = Concat(TextDeltas(Payloads(r.sent)))

\* C2: the text the decoder has produced over the reads so far is the text of
\* the bytes read so far decoded in one piece, whenever those bytes end on a
\* character boundary: a character cut by a chunk boundary is carried over.
C2_SplitCharacterDecodes ==
    \A id \in Streaming :
        LET r == reqs[id] IN
        UTF8Run(UTF8Reset, Consumed(r), 1, <<>>).st.needed = 0
            => r.decoded = DecodeWhole(Consumed(r))

\* C3: a frame whose payload begins with [ERROR] aborts consumption.  The
\* read that delivers the last byte of the body's first [ERROR] frame leaves
\* the call Failed with the frame's payload in the error message, and no read
\* of bytes of that frame or of anything after it changes content.
C3_ErrorFrameAborts ==
    [][\A id \in DOMAIN reqs :
          (ReadStep(id) /\ ErrorFrames(reqs[id].sent) # {}) =>
              LET r == reqs[id]
                  j == Min(ErrorFrames(r.sent))
              IN /\ (Pos(r) < LineEnd(r.sent, j) /\ LineEnd(r.sent, j) <= Pos(reqs'[id]))
                        => /\ reqs'[id].pc = "Failed"
                           /\ error' = ErrorLabel \o PayloadOf(r.sent, j)
                 /\ Pos(r) + 1 >= LineStart(r.sent, j) => content' = content
      ]_vars

\* C4: a frame whose payload is exactly [DONE] appends nothing and sets no
\* error.  A read all of whose bytes belong to [DONE] frames leaves content
\* and error as they were.
C4_DoneFrameHasNoEffect ==
    [][\A id \in DOMAIN reqs :
          (ReadStep(id) /\ LinesRead(id) \subseteq DoneFrames(reqs[id].sent))
              => (content' = content /\ error' = error)
      ]_vars

\* C5: once a [DONE] frame has been received the consumer stops.  A read of
\* bytes that follow the body's first [DONE] frame changes neither content
\* nor error and does not fail the call.
C5_NothingAfterDone ==
    [][\A id \in DOMAIN reqs :
          (ReadStep(id) /\ DoneFrames(reqs[id].sent) # {}) =>
              LET r == reqs[id]
                  j == Min(DoneFrames(r.sent))
              IN Pos(r) >= LineEnd(r.sent, j)
                    => /\ content' = content
                       /\ error' = error
                       /\ reqs'[id].pc # "Failed"
      ]_vars

\* C6: when a streaming call has Failed, by an [ERROR] frame or by a failed
\* read, content still holds every text delta the call appended: the failure
\* path neither clears nor shortens it.
C6_PartialTextKept ==
    \A id \in DOMAIN reqs :
        (reqs[id].mode = "stream" /\ reqs[id].pc = "Failed")
            => content = Concat(TextDeltas(reqs[id].yielded))

\* A streaming call that appended text and then Failed on an [ERROR] frame.
C6_Witness ==
    \E id \in DOMAIN reqs :
        /\ reqs[id].mode = "stream" /\ reqs[id].pc = "Failed"
        /\ TextDeltas(reqs[id].yielded) # <<>>
        /\ content # <<>>
        /\ StartsWith(error, ErrorLabel \o ErrorMark)

\* C7: a call whose response has a non-success status is Failed, the error
\* message contains the status code, none of the body has been read and
\* content is as handleSubmit reset it.
C7_HttpErrorFails ==
    \A id \in DOMAIN reqs :
        LET r == reqs[id] IN
        (r.status # 0 /\ ~Ok(r.status))
            => /\ r.pc = "Failed"
               /\ Includes(error, NumberToString(r.status))
               /\ r.wire = r.sent /\ r.yielded = <<>> /\ r.decoded = <<>>
               /\ content = <<>>

\* A call of generateRegular that Failed on status 500.
C7_Witness ==
    \E id \in DOMAIN reqs :
        reqs[id].mode = "regular" /\ reqs[id].status = 500 /\ reqs[id].pc = "Failed"

\* C9: no request is ever sent with a prompt that is empty once trimmed, and
\* while the prompt is empty or white space only and nothing is loading, no
\* step sends a request, sets isLoading, or changes content or error.
C9_EmptyPromptNeverSubmits ==
    /\ [](\A id \in DOMAIN reqs : Trim(reqs[id].prompt) # <<>>)
    /\ [][(Trim(prompt) = <<>> /\ ~isLoading)
            => (~isLoading' /\ content' = content /\ error' = error /\ reqs' = reqs
                /\ nextId' = nextId)]_vars

\* The prompt is white space only, after a request has left text in content.
C9_Witness ==
    /\ prompt # <<>> /\ Trim(prompt) = <<>>
    /\ ~isLoading
    /\ content # <<>>

\* C10: while a call waits for its response, content and error are empty,
\* and once it is reading its stream, content holds the text deltas of that
\* call and nothing else, whatever the previous call left behind.
C10_SubmissionStartsEmpty ==
    \A id \in DOMAIN reqs :
        /\ reqs[id].pc = "fetch" => (content = <<>> /\ error = <<>>)
        /\ reqs[id].pc = "read" =>
              (content = Concat(TextDeltas(reqs[id].yielded)) /\ error = <<>>)

\* A second submission that is reading its stream and has appended text.
C10_Witness ==
    \E id \in DOMAIN reqs :
        id > 1 /\ reqs[id].pc = "read" /\ content # <<>>

\* This step is handleGenerate throwing on a non-success status.
GenerateStatusFails ==
    /\ calls["generate"].pc = "json"
    /\ ~Ok(calls["generate"].status)
    /\ calls'["generate"].pc # "json"

\* This step is a regeneration throwing on a non-success status.
RegenerateStatusFails(section) ==
    /\ calls[section].pc = "fetch"
    /\ calls'[section].pc # "fetch"
    /\ calls'[section].status # 0 /\ ~Ok(calls'[section].status)

Latest == nextId - 1

\* C11: when handleSubmit is called while an earlier streaming call is still
\* reading, content holds the text of the latest call only: nothing while
\* the latest call waits for its response, and once it reads its stream
\* exactly its own text deltas, those of the earlier stream never among them.
C11_LatestRequestOwnsContent ==
    (Latest \in DOMAIN reqs /\ reqs[Latest].mode = "stream")
        => /\ reqs[Latest].pc = "fetch" => content = <<>>
           /\ reqs[Latest].pc = "read" => content = Concat(TextDeltas(reqs[Latest].yielded))

\* Byte k of the body and every byte after it belong to a last line that no
\* line break ends.
InUnfinishedLastLine(bytes, k) == \A i \in k..Len(bytes) : bytes[i] # LF

\* C12: a last line of the body that no line break ends is dropped.  A read
\* all of whose bytes belong to such a line changes neither content nor
\* error and does not fail the call, also when the line begins with "data: ".
C12_PartialLastLineDropped ==
    [][\A id \in DOMAIN reqs :
          (ReadStep(id) /\ InUnfinishedLastLine(reqs[id].sent, Pos(reqs[id]) + 1))
              => /\ content' = content
                 /\ error' = error
                 /\ reqs'[id].pc # "Failed"
      ]_vars

\* The body of the example: "data: b", then the frame "data: [ERROR] x".
PartialThenError == PartialLine \o Frame(ErrorMark \o <<32, 120>>)

\* C13: a "data: " line whose chunk ends before its line break is not a text
\* delta.  When the body "data: b" followed by the frame "data: [ERROR] x"
\* has failed the call with the frame's payload as the message, so that a
\* read ended just after "data: b", content is empty: "b" was not appended.
C13_UnterminatedLineNotAppended ==
    \A id \in DOMAIN reqs :
        (/\ reqs[id].sent = PartialThenError
         /\ reqs[id].pc = "Failed"
         /\ error = ErrorLabel \o ErrorMark \o <<32, 120>>)
            => content = <<>>

IsPrefix(s, t) == Len(s) <= Len(t) /\ SubSeq(t, 1, Len(s)) = s

\* C14: within one streaming request content is append-only and mirrors the
\* deltas.  At every point of the request content is the join, in the order
\* of arrival and untrimmed, of the text deltas the loop has processed, and
\* every step taken while the request reads its stream leaves the old
\* content a prefix of the new one.
C14_ContentMirrorsDeltas ==
    /\ [](\A id \in Streaming : content = Concat(TextDeltas(reqs[id].yielded)))
    /\ [][(\E id \in DOMAIN reqs : reqs[id].pc = "read") => IsPrefix(content, content')]_vars

\* A streaming call that has processed two text deltas, content their join.
C14_Witness ==
    \E id \in Streaming :
        /\ Len(TextDeltas(reqs[id].yielded)) >= 2
        /\ \A k \in 1..Len(reqs[id].yielded) : reqs[id].yielded[k] # <<>>
        /\ Len(content) > Len(reqs[id].yielded[1])

\* C15: after any sequence of onDrop and removeImage calls, several onDrop
\* calls made in one render and so computing with the same stale
\* images.length among them, images holds at most 5 entries, and so does
\* the list of every render, which is what buildFormData puts in a request.
C15_AtMostFiveImages ==
    /\ Len(images) <= MaxImages
    /\ Len(renderedImages) <= MaxImages

\* images is full while the render the callbacks were made in has fewer
\* images, and not a prefix of them: onDrop and removeImage have run since
\* that render, and the next onDrop computes with its stale length.
C15_Witness ==
    /\ Len(images) = MaxImages
    /\ Len(renderedImages) < MaxImages /\ Len(renderedImages) > 0
    /\ ~IsPrefix(renderedImages, images)

\* C16: whenever a streaming request has reached Completed or Failed, the
\* reader it acquired has been released: the stream has ended, has failed or
\* has been cancelled, and is not left open with the reader's lock on it.
C16_ReaderReleased ==
    \A id \in DOMAIN reqs :
        (reqs[id].pc \in Terminal /\ reqs[id].reader # "none")
            => reqs[id].reader \in {"closed", "errored", "cancelled"}

\* C17: the listing texts belong to the latest Generate.  A regeneration can
\* only be started while no Generate is in flight (line 734), so while one is
\* in flight every regeneration response is a late one: description and
\* socialCaption stay as handleGenerate cleared them until its own response.
C17_LateRegenerationIgnored ==
    calls["generate"].pc \in {"fetch", "json"}
        => (description = <<>> /\ socialCaption = <<>>)

\* C18: isLoading is true exactly while a generation request is in flight.
\* On the generic page it is true exactly while a call of handleSubmit has
\* not reached Completed or Failed, on the listing page exactly while
\* handleGenerate has not; and, the response or stream eventually ending or
\* failing, it is eventually false again, whatever the outcome (a page
\* shows one App, so at most one of the two flags is ever set).
C18_LoadingWhileInFlight ==
    /\ [](isLoading <=> InFlight # {})
    /\ [](listingIsLoading <=> calls["generate"].pc \in {"fetch", "json"})
    /\ ((isLoading \/ listingIsLoading) ~> (~isLoading /\ ~listingIsLoading))

\* A streaming call that was read and then Failed, isLoading false again.
C18_Witness ==
    /\ ~isLoading
    /\ \E id \in DOMAIN reqs :
          /\ reqs[id].mode = "stream" /\ reqs[id].pc = "Failed"
          /\ reqs[id].yielded # <<>>

\* The listing App as useState leaves it (lines 366-371).
InitListing ==
    /\ description = <<>>
    /\ socialCaption = <<>>
    /\ listingIsLoading = FALSE
    /\ isRegeneratingDescription = FALSE
    /\ isRegeneratingSocial = FALSE
    /\ listingError = <<>>
    /\ calls = [h \in Handlers |-> IdleCall]
    /\ images = <<>>
    /\ renderedImages = <<>>

\* The generic App as useState leaves it (lines 37-55).
InitGeneric ==
    /\ prompt = <<>>
    /\ useStreaming = TRUE
    /\ content = <<>>
    /\ isLoading = FALSE
    /\ error = <<>>
    /\ reqs = [id \in {} |-> NewRequest("stream", <<>>)]
    /\ nextId = 1

Init == InitGeneric /\ InitListing

Next ==
    \/ SetPrompt
    \/ SetUseStreaming
    \/ HandleSubmit
    \/ \E id \in DOMAIN reqs : FetchReject(id)
    \/ \E id \in DOMAIN reqs : FetchResolveRegular(id)
    \/ \E id \in DOMAIN reqs : JsonSettle(id)
    \/ \E id \in DOMAIN reqs : FetchResolveStreaming(id, StreamsUpTo(MaxPageFrames))
    \/ \E id \in DOMAIN reqs : ReadChunk(id)
    \/ \E id \in DOMAIN reqs : ReadDone(id)
    \/ \E id \in DOMAIN reqs : ReadFail(id)

Spec == Init /\ [][Next]_vars

(***************************************************************************)
(* One streaming request, from its fetch to its end: the state after       *)
(* handleSubmit has run with useStreaming set, and the steps of            *)
(* generateStreaming.                                                      *)
(***************************************************************************)
InitStream ==
    /\ prompt = <<32, 97>>
    /\ useStreaming = TRUE
    /\ content = <<>>
    /\ isLoading = TRUE
    /\ error = <<>>
    /\ reqs = [id \in {1} |-> NewRequest("stream", prompt)]
    /\ nextId = 2
    /\ InitListing

NextStream ==
    \/ \E id \in DOMAIN reqs : FetchReject(id)
    \/ \E id \in DOMAIN reqs : FetchResolveStreaming(id, StreamsUpTo(MaxFrames))
    \/ \E id \in DOMAIN reqs : ReadChunk(id)
    \/ \E id \in DOMAIN reqs : ReadDone(id)
    \/ \E id \in DOMAIN reqs : ReadFail(id)

SpecStream == InitStream /\ [][NextStream]_vars
(***************************************************************************)
(* The listing generator page.                                             *)
(***************************************************************************)
NextListing ==
    \/ HandleGenerate
    \/ GenerateFetchResolve
    \/ GenerateFetchReject
    \/ GenerateJsonSettle
    \/ HandleRegenerateDescription
    \/ HandleRegenerateSocial
    \/ TryAgain

SpecListing == Init /\ [][NextListing]_vars

(***************************************************************************)
(* The listing generator's image upload.                                   *)
(***************************************************************************)
NextImages ==
    \/ OnDrop
    \/ RemoveImage
    \/ Render

SpecImages == Init /\ [][NextImages]_vars

(***************************************************************************)
(* handleSubmit as a function: the calls of it, from any caller, and the   *)
(* steps of the streaming requests they start.  The prompt is typed and    *)
(* the streaming checkbox is as useState(true) leaves it.                  *)
(***************************************************************************)
InitCore ==
    /\ prompt = <<32, 97>>
    /\ useStreaming = TRUE
    /\ content = <<>>
    /\ isLoading = FALSE
    /\ error = <<>>
    /\ reqs = [id \in {} |-> NewRequest("stream", <<>>)]
    /\ nextId = 1
    /\ InitListing

NextCore ==
    \/ HandleSubmitCall
    \/ \E id \in DOMAIN reqs : FetchReject(id)
    \/ \E id \in DOMAIN reqs : FetchResolveStreaming(id, StreamsUpTo(MaxPageFrames))
    \/ \E id \in DOMAIN reqs : ReadChunk(id)
    \/ \E id \in DOMAIN reqs : ReadDone(id)
    \/ \E id \in DOMAIN reqs : ReadFail(id)

SpecCore == InitCore /\ [][NextCore]_vars

(***************************************************************************)
(* Either page, every request of it ending.  The browser shows one of the  *)
(* two Apps: a step of one is taken only while the other is as it was      *)
(* constructed.  Fairness is what the claim about isLoading assumes of the *)
(* back end and the network, and nothing of the user: a response           *)
(* eventually arrives or fails, a body is eventually parsed or fails to,   *)
(* a stream eventually ends or fails.  Only one page has requests, so one  *)
(* fairness condition serves both.                                         *)
(***************************************************************************)
\* A request of the generic page gets its response, or ends.
RequestStep ==
    \E id \in DOMAIN reqs :
        \/ FetchReject(id)
        \/ FetchResolveRegular(id)
        \/ JsonSettle(id)
        \/ FetchResolveStreaming(id, StreamsUpTo(MaxPageFrames))
        \/ ReadDone(id)
        \/ ReadFail(id)

\* handleGenerate's request gets its response, or ends.
GenerateStep ==
    \/ GenerateFetchResolve
    \/ GenerateFetchReject
    \/ GenerateJsonSettle

NextPage ==
    \/ InitListing /\ Next
    \/ InitGeneric /\ NextListing

SpecLoading ==
    /\ Init
    /\ [][NextPage]_vars
    /\ WF_vars(RequestStep \/ GenerateStep)
====
